---- MODULE Spec2Model ----
(***************************************************************************)
(* MediaLibraryCleaner: the ingestion pipeline (cli.py scan, web/app.py    *)
(* background_scan, scanner.py) and the analysis engine (analyzer.py) over *)
(* the record store of database.py.                                        *)
(***************************************************************************)
EXTENDS Integers, Sequences, FiniteSets, TLC

VARIABLES
    fs,          \* the file system: file -> what its extraction yields
    db,          \* media_files rows that are committed
    sess,        \* media_files rows as the open session sees them
    issues,      \* media_issues rows (committed), in insertion order
    pc,          \* where the running command is
    inv,         \* the arguments of the running / last scan invocation
    rootIdx,     \* index in inv.paths of the root being scanned
    queued,      \* submitted extraction tasks not finished yet, in order
    finished,    \* finished futures that the loop has not consumed yet
    batch,       \* cli.py: batch
    total_files, \* cli.py: total_files / app.py: total
    outcome,     \* how the last invocation ended, and why
    clock,       \* number of the invocation (stands for utcnow)
    hist,        \* history of the invocation, for the properties
    lastResult   \* the value the last analyzer call returned

vars == <<fs, db, sess, issues, pc, inv, rootIdx, queued, finished, batch,
          total_files, outcome, clock, hist, lastResult>>

scanVars == <<fs, db, sess, pc, inv, rootIdx, queued, finished, batch,
              total_files, outcome, clock, hist>>

---------------------------------------------------------------------------
(* Bounds of the model *)

MaxScans == 2
MaxCommitFailures == 1
MaxChanges == 1

---------------------------------------------------------------------------
(* The file system the scans read *)

Files == {"f1", "f2", "f3"}

\* What extraction meets in a file: "raise" (stat/open fails), "novideo"
\* (pymediainfo finds no video track), "video" (a video track only),
\* "av" (a video and an audio track).
Kinds == {"raise", "novideo", "video", "av"}

Roots == {"tv", "tv/s1", "gone"}

RootExists(r) == r # "gone"

\* os.walk order of the candidate files under a root
RootFiles(r) ==
    CASE r = "tv" -> <<"f1", "f2", "f3">>
      [] r = "tv/s1" -> <<"f3">>
      [] OTHER -> <<>>

\* Path(path_str).name
PathName(r) == IF r = "tv/s1" THEN "s1" ELSE r

NullInt == 0 - 1
NullStr == "None"

StrColumns == {"file_path", "file_name", "file_hash", "media_type", "title", "codec"}

IntColumns == {"id", "file_size", "year", "season", "episode", "resolution_width",
               "resolution_height", "bitrate", "duration", "created_at", "scanned_at"}

\* MediaFile's columns
Columns == StrColumns \cup IntColumns

NullOf(c) == IF c \in StrColumns THEN NullStr ELSE NullInt

SetToSeq(S) == CHOOSE s \in [1..Cardinality(S) -> S] : \A x \in S : \E i \in DOMAIN s : s[i] = x

Range(s) == {s[i] : i \in DOMAIN s}

MaxOf(S) == CHOOSE x \in S : \A y \in S : y <= x

MinOf(S) == CHOOSE x \in S : \A y \in S : x <= y

---------------------------------------------------------------------------
(* scanner.py: extraction of one file *)

\* file_path.name
FileName(f) ==
    CASE f = "f1" -> "Show.S01E01.mkv"
      [] f = "f2" -> "Show.S01E02.mkv"
      [] OTHER -> "Show.S01E04.mkv"

\* stat.st_size: a file's size goes with its content
FileSize(f, k) == CASE k = "novideo" -> 100 [] k = "video" -> 200 [] OTHER -> 300

\* _calculate_hash: a function of the size and the content windows
CalculateHash(f, k) == "xx-" \o f \o "-" \o k

\* The file names of the model. Season and episode are what _extract_season
\* and _extract_episode find in each.
ShowNames == {"Show.S01E01.mkv", "Show.S01E02.mkv", "Show.S01E03.mkv", "Show.S01E04.mkv",
              "Show.S01E05.mkv", "Show.S01E06.mkv", "Show.S01E07.mkv", "Show.S02E03.mkv",
              "Show.S02E05.mkv"}

\* _extract_title
ExtractTitle(name) == IF name \in ShowNames THEN "Show" ELSE "Other"

\* _extract_year
ExtractYear(name) == NullInt

\* _extract_season
ExtractSeason(name) ==
    CASE name \in {"Show.S02E03.mkv", "Show.S02E05.mkv"} -> 2
      [] name \in ShowNames -> 1
      [] OTHER -> NullInt

\* _extract_episode
ExtractEpisode(name) ==
    CASE name = "Show.S01E01.mkv" -> 1
      [] name = "Show.S01E02.mkv" -> 2
      [] name \in {"Show.S01E03.mkv", "Show.S02E03.mkv"} -> 3
      [] name = "Show.S01E04.mkv" -> 4
      [] name \in {"Show.S01E05.mkv", "Show.S02E05.mkv"} -> 5
      [] name = "Show.S01E06.mkv" -> 6
      [] name = "Show.S01E07.mkv" -> 7
      [] OTHER -> NullInt

\* _get_media_info: None without a video track; the audio keys only with
\* an audio track
GetMediaInfo(f, k) ==
    LET video == [resolution_width |-> 1920, resolution_height |-> 1080,
                  codec |-> "V_MPEG4", bitrate |-> 5000, duration |-> 60]
        audio == [audio_codec |-> "AAC", audio_channels |-> 2, audio_language |-> "en"]
    IN  CASE k = "video" -> video
          [] k = "av" -> audio @@ video
          [] OTHER -> <<>>

\* _extract_file_info: the dict it returns (k # "raise"); info.update(media_info)
ExtractFileInfo(f, k, media_type) ==
    GetMediaInfo(f, k) @@
    [file_path |-> f, file_name |-> FileName(f), file_size |-> FileSize(f, k),
     file_hash |-> CalculateHash(f, k), media_type |-> media_type,
     title |-> ExtractTitle(FileName(f)), year |-> ExtractYear(FileName(f)),
     season |-> ExtractSeason(FileName(f)), episode |-> ExtractEpisode(FileName(f))]

---------------------------------------------------------------------------
(* database.py and the session: rows, query, insert, update *)

\* session.query(MediaFile).filter_by(file_path=p).first()
QueryByPath(s, p) ==
    LET hits == {r \in s : r.file_path = p}
    IN  IF hits = {} THEN {} ELSE {CHOOSE r \in hits : \A q \in hits : r.id <= q.id}

NextId(s) == IF s = {} THEN 1 ELSE MaxOf({r.id : r \in s}) + 1

\* MediaFile(**info): the declarative constructor rejects a key that is no
\* attribute of the class
ConstructorAccepts(info) == DOMAIN info \subseteq Columns

\* MediaFile(**info); session.add(media_file), flushed by the next query or
\* commit: the columns the info does not name are NULL, the timestamps default
NewRow(s, info, now) ==
    [c \in Columns |->
        CASE c = "id" -> NextId(s)
          [] c \in {"created_at", "scanned_at"} -> now
          [] c \in DOMAIN info -> info[c]
          [] OTHER -> NullOf(c)]

\* for key, value in info.items(): setattr(existing, key, value)
\* (a key that is no column sets a plain attribute, which is not persisted)
UpdateRow(existing, info) ==
    [c \in Columns |-> IF c \in DOMAIN info THEN info[c] ELSE existing[c]]

\* cli.py 99-111 / app.py 110-121 for one info: the session afterwards, and
\* the exception raised, if any
Upsert(s, info, now) ==
    LET existing == QueryByPath(s, info.file_path)
    IN  IF existing # {}
        THEN LET e == CHOOSE r \in existing : TRUE
             IN  [sess |-> (s \ {e}) \cup {UpdateRow(e, info)}, raised |-> "no"]
        ELSE IF ~ConstructorAccepts(info)
        THEN [sess |-> s, raised |-> "TypeError"]
        ELSE [sess |-> s \cup {NewRow(s, info, now)}, raised |-> "no"]

RECURSIVE ProcessBatch(_, _, _, _)
\* for info in batch: upsert; total_files += 1   (stops at the first raise)
ProcessBatch(s, b, total, now) ==
    IF b = <<>> THEN [sess |-> s, total |-> total, raised |-> "no", done |-> {}]
    ELSE LET u == Upsert(s, Head(b), now)
         IN  IF u.raised # "no"
             THEN [sess |-> u.sess, total |-> total, raised |-> u.raised, done |-> {}]
             ELSE LET rest == ProcessBatch(u.sess, Tail(b), total + 1, now)
                  IN  [rest EXCEPT !.done = @ \cup {Head(b).file_path}]

---------------------------------------------------------------------------
(* The scan commands: their arguments and the history kept for the properties *)

\* config.get('scanner.threads', 4) / --threads, config.get('scanner.batch_size', 5),
\* scaled to the three files of the model
ThreadChoices == {1, 2}

BatchSizes == {1, 2}

\* the paths a caller gives; <<>> is "no paths" (cli.py falls back on the config)
PathArgs == {<<"tv">>, <<"tv/s1", "tv">>, <<"tv", "gone">>, <<>>}

\* config.tv_path, config.movies_path
ConfigPaths == <<"tv", "gone">>

\* --type; the model runs the default
MediaTypes == {"auto"}

Invocations ==
    [entry : {"cli"}, paths : PathArgs, media_type : MediaTypes,
     threads : ThreadChoices, batch_size : BatchSizes]
    \cup
    [entry : {"web"}, paths : PathArgs \ {<<>>}, media_type : {"auto"},
     threads : {1}, batch_size : {1}]

\* cli.py 42-43
EffectivePaths(i) == IF i.paths = <<>> THEN ConfigPaths ELSE i.paths

\* cli.py 60-63
DetectedType(i, r) ==
    IF i.media_type = "auto"
    THEN (IF PathName(r) = "tv" THEN "tv" ELSE "movie")
    ELSE i.media_type

NoOutcome == [status |-> "none", cause |-> "none"]

NoPrev == [status |-> "none", inv |-> <<>>, fs |-> <<>>, faults |-> 0]

\* what the properties need to know of the invocation so far
NewHist(h, store) ==
    [dbStart |-> store,          \* the store when the invocation started
     fsStart |-> fs,             \* the files when the invocation started
     extracted |-> {},           \* files whose extraction ran
     raised |-> {},              \* files whose extraction raised
     commits |-> 0,              \* commits that succeeded, for the current root
     rootNew |-> TRUE,           \* the current root held no stored path when it started
     failRoot |-> 0,             \* index of the root a commit failed in (0: none)
     failRows |-> {},            \* rows this root's scan had committed before that
     rootDone |-> {},            \* paths of the current root committed by this scan
     written |-> {},             \* paths upserted and committed by the invocation
     faults |-> 0,               \* commit failures and interrupts of the invocation
     counted |-> 0,              \* results contained in committed batches (current root)
     prev |-> h.last,            \* the invocation before this one
     last |-> NoPrev,            \* this invocation, once it is over
     failures |-> h.failures,    \* commit failures so far (bounded)
     changes |-> h.changes,      \* file changes so far (bounded)
     analyses |-> h.analyses]    \* the analyze_all runs that are over

Current == EffectivePaths(inv)[rootIdx]

\* the files of the pool that are running: max_workers at a time, in
\* submission order
Running == {queued[i] : i \in 1..(IF Len(queued) < inv.threads THEN Len(queued) ELSE inv.threads)}

Remove(q, f) == SelectSeq(q, LAMBDA x : x # f)

\* the invocation is over: remember it, for the next one
Finish(h, status, cause) ==
    /\ pc' = "idle"
    /\ outcome' = [status |-> status, cause |-> cause]
    /\ hist' = [h EXCEPT !.last = [status |-> status, inv |-> inv, fs |-> fs,
                                   faults |-> h.faults]]

---------------------------------------------------------------------------
(* cli.py: scan *)

\* cli.py 36-55: click checks every given path (exists=True) before the body
\* runs; the configured paths of a call without paths are not checked.
\* The second invocation of a behaviour runs the first one's command again.
CliInvoke(i) ==
    /\ pc = "idle"
    /\ clock < MaxScans
    /\ i.entry = "cli"
    /\ clock = 0 \/ i = inv
    /\ clock' = clock + 1
    /\ inv' = i
    /\ rootIdx' = 1
    /\ sess' = db
    /\ queued' = <<>>
    /\ finished' = {}
    /\ batch' = <<>>
    /\ total_files' = 0
    /\ IF \E k \in DOMAIN i.paths : ~RootExists(i.paths[k])
       THEN /\ pc' = "idle"
            /\ outcome' = [status |-> "error", cause |-> "missing_root"]
            /\ hist' = [NewHist(hist, db) EXCEPT
                          !.last = [status |-> "error", inv |-> inv', fs |-> fs, faults |-> 0]]
       ELSE /\ pc' = "cli_root"
            /\ outcome' = NoOutcome
            /\ hist' = NewHist(hist, db)
    /\ UNCHANGED <<fs, db, issues, lastResult>>

\* cli.py 57-91: walk the root, submit one extraction per candidate, open
\* the session (os.walk of a path that does not exist yields nothing)
CliStartRoot ==
    /\ pc = "cli_root"
    /\ pc' = "cli_loop"
    /\ queued' = RootFiles(Current)
    /\ finished' = {}
    /\ batch' = <<>>
    /\ total_files' = 0
    /\ sess' = db
    /\ hist' = [hist EXCEPT !.commits = 0, !.counted = 0, !.rootDone = {},
                  !.rootNew = \A r \in db : r.file_path \notin Range(RootFiles(Current))]
    /\ UNCHANGED <<fs, db, issues, inv, rootIdx, outcome, clock, lastResult>>

\* a worker of the pool ends _extract_file_info for f
WorkerFinish(f) ==
    /\ pc = "cli_loop"
    /\ f \in Running
    /\ queued' = Remove(queued, f)
    /\ finished' = finished \cup {f}
    /\ hist' = [hist EXCEPT !.extracted = @ \cup {f},
                  !.raised = IF fs[f] = "raise" THEN @ \cup {f} ELSE @]
    /\ UNCHANGED <<fs, db, sess, issues, pc, inv, rootIdx, batch, total_files,
                   outcome, clock, lastResult>>

\* cli.py 92-119, one iteration whose session.commit() (if reached) succeeds
CliConsume(f) ==
    /\ pc = "cli_loop"
    /\ f \in finished
    /\ finished' = finished \ {f}
    /\ IF fs[f] = "raise"
       THEN \* future.result() raises: logged, the batch is as it was
            UNCHANGED <<db, sess, batch, total_files, hist>>
       ELSE LET b == Append(batch, ExtractFileInfo(f, fs[f], DetectedType(inv, Current)))
                pb == ProcessBatch(sess, b, total_files, clock)
            IN  IF Len(b) < inv.batch_size
                THEN /\ batch' = b
                     /\ UNCHANGED <<db, sess, total_files, hist>>
                ELSE IF pb.raised # "no"
                THEN \* caught at line 117: batch = [] is not reached
                     /\ batch' = b
                     /\ sess' = pb.sess
                     /\ total_files' = pb.total
                     /\ UNCHANGED <<db, hist>>
                ELSE /\ batch' = <<>>
                     /\ sess' = pb.sess
                     /\ db' = pb.sess
                     /\ total_files' = pb.total
                     /\ hist' = [hist EXCEPT !.commits = @ + 1,
                                   !.counted = @ + Len(b),
                                   !.rootDone = @ \cup pb.done,
                                   !.written = @ \cup pb.done]
    /\ UNCHANGED <<fs, issues, pc, inv, rootIdx, queued, outcome, clock, lastResult>>

\* cli.py 92-119, one iteration whose session.commit() raises: the session
\* rolls back, the except clause logs, and the batch is kept
CliConsumeCommitFails(f) ==
    /\ pc = "cli_loop"
    /\ f \in finished
    /\ fs[f] # "raise"
    /\ hist.failures < MaxCommitFailures
    /\ LET b == Append(batch, ExtractFileInfo(f, fs[f], DetectedType(inv, Current)))
           pb == ProcessBatch(sess, b, total_files, clock)
       IN  /\ Len(b) >= inv.batch_size
           /\ pb.raised = "no"
           /\ batch' = b
           /\ total_files' = pb.total
    /\ finished' = finished \ {f}
    /\ sess' = db
    /\ hist' = [hist EXCEPT !.failures = @ + 1, !.faults = @ + 1,
                  !.failRoot = rootIdx,
                  !.failRows = {r \in db : r.file_path \in hist.rootDone}]
    /\ UNCHANGED <<fs, db, issues, pc, inv, rootIdx, queued, outcome, clock, lastResult>>

\* cli.py 140 and the loop of line 57: the next root, or the end
CliNextRoot(h) ==
    IF rootIdx < Len(EffectivePaths(inv))
    THEN /\ pc' = "cli_root"
         /\ rootIdx' = rootIdx + 1
         /\ hist' = h
         /\ UNCHANGED outcome
    ELSE /\ Finish(h, "ok", "none")
         /\ UNCHANGED rootIdx

\* a scan that ends without writing what is left in the batch
CliFinalDropsRest ==
    /\ pc = "cli_loop"
    /\ queued = <<>>
    /\ finished = {}
    /\ CliNextRoot(hist)
    /\ UNCHANGED <<db, sess, batch, total_files>>
    /\ UNCHANGED <<fs, issues, inv, queued, finished, clock, lastResult>>

\* cli.py 121-140, the rest of the batch, its commit succeeding
CliFinal ==
    /\ pc = "cli_loop"
    /\ queued = <<>>
    /\ finished = {}
    /\ LET pb == ProcessBatch(sess, batch, total_files, clock)
       IN  IF batch = <<>>
           THEN /\ CliNextRoot(hist)
                /\ UNCHANGED <<db, sess, batch, total_files>>
           ELSE IF pb.raised # "no"
           THEN \* not inside a try: the command dies, the session is closed
                /\ Finish(hist, "error", pb.raised)
                /\ sess' = db
                /\ total_files' = pb.total
                /\ UNCHANGED <<db, batch, rootIdx>>
           ELSE /\ db' = pb.sess
                /\ sess' = pb.sess
                /\ total_files' = pb.total
                /\ CliNextRoot([hist EXCEPT !.commits = @ + 1,
                                  !.counted = @ + Len(batch),
                                  !.rootDone = @ \cup pb.done,
                                  !.written = @ \cup pb.done])
                /\ UNCHANGED batch
    /\ UNCHANGED <<fs, issues, inv, queued, finished, clock, lastResult>>

\* cli.py 137 raises: the command dies
CliFinalCommitFails ==
    /\ pc = "cli_loop"
    /\ queued = <<>>
    /\ finished = {}
    /\ batch # <<>>
    /\ hist.failures < MaxCommitFailures
    /\ LET pb == ProcessBatch(sess, batch, total_files, clock)
       IN  /\ pb.raised = "no"
           /\ total_files' = pb.total
    /\ sess' = db
    /\ Finish([hist EXCEPT !.failures = @ + 1, !.faults = @ + 1,
                 !.failRoot = rootIdx,
                 !.failRows = {r \in db : r.file_path \in hist.rootDone}],
              "error", "commit")
    /\ UNCHANGED <<fs, db, issues, inv, rootIdx, queued, finished, batch, clock, lastResult>>

\* the user interrupts the command between two iterations of the loop
CliInterrupt ==
    /\ pc = "cli_loop"
    /\ sess' = db
    /\ Finish([hist EXCEPT !.faults = @ + 1], "interrupted", "interrupt")
    /\ UNCHANGED <<fs, db, issues, inv, rootIdx, queued, finished, batch, total_files,
                   clock, lastResult>>

---------------------------------------------------------------------------
(* web/app.py: background_scan *)

\* app.py 100-105
WebInvoke(i) ==
    /\ pc = "idle"
    /\ clock < MaxScans
    /\ i.entry = "web"
    /\ clock = 0 \/ i = inv
    /\ clock' = clock + 1
    /\ inv' = i
    /\ rootIdx' = 1
    /\ sess' = db
    /\ queued' = <<>>
    /\ finished' = {}
    /\ batch' = <<>>
    /\ total_files' = 0
    /\ pc' = "web_root"
    /\ outcome' = NoOutcome
    /\ hist' = NewHist(hist, db)
    /\ UNCHANGED <<fs, db, issues, lastResult>>

\* app.py 106-109 with scanner.py 19-25: scan_directory raises for a path
\* that does not exist when the loop first asks it for a file
WebStartRoot ==
    /\ pc = "web_root"
    /\ IF ~RootExists(Current)
       THEN /\ Finish(hist, "error", "missing_root")
            /\ sess' = db
            /\ UNCHANGED queued
       ELSE /\ pc' = "web_loop"
            /\ queued' = RootFiles(Current)
            /\ hist' = [hist EXCEPT !.commits = 0, !.counted = 0, !.rootDone = {},
                          !.rootNew = \A r \in db : r.file_path \notin Range(RootFiles(Current))]
            /\ UNCHANGED <<sess, outcome>>
    /\ UNCHANGED <<fs, db, issues, inv, rootIdx, finished, batch, total_files, clock,
                   lastResult>>

\* app.py 109-123 for the next file of the walk: scanner.py 30 extracts it
\* (media type 'auto'), then the upsert; an exception ends the task
WebFile ==
    /\ pc = "web_loop"
    /\ queued # <<>>
    /\ LET f == Head(queued)
           u == Upsert(sess, ExtractFileInfo(f, fs[f], "auto"), clock)
           h == [hist EXCEPT !.extracted = @ \cup {f},
                   !.raised = IF fs[f] = "raise" THEN @ \cup {f} ELSE @]
       IN  IF fs[f] = "raise"
           THEN /\ Finish(h, "error", "extraction")
                /\ sess' = db
                /\ UNCHANGED <<queued, total_files>>
           ELSE IF u.raised # "no"
           THEN /\ Finish(h, "error", u.raised)
                /\ sess' = db
                /\ UNCHANGED <<queued, total_files>>
           ELSE /\ sess' = u.sess
                /\ queued' = Tail(queued)
                /\ total_files' = total_files + 1
                /\ hist' = [h EXCEPT !.rootDone = @ \cup {f}]
                /\ UNCHANGED <<pc, outcome>>
    /\ UNCHANGED <<fs, db, issues, inv, rootIdx, finished, batch, clock, lastResult>>

\* app.py 125-127: the root's commit succeeds; the next path, or scan_complete
WebCommit ==
    /\ pc = "web_loop"
    /\ queued = <<>>
    /\ db' = sess
    /\ LET h == [hist EXCEPT !.commits = @ + 1, !.counted = @ + Cardinality(hist.rootDone),
                   !.written = @ \cup hist.rootDone]
       IN  IF rootIdx < Len(EffectivePaths(inv))
           THEN /\ pc' = "web_root"
                /\ rootIdx' = rootIdx + 1
                /\ hist' = h
                /\ UNCHANGED outcome
           ELSE /\ Finish(h, "ok", "none")
                /\ UNCHANGED rootIdx
    /\ UNCHANGED <<fs, sess, issues, inv, queued, finished, batch, total_files, clock,
                   lastResult>>

\* app.py 125 raises: the task dies
WebCommitFails ==
    /\ pc = "web_loop"
    /\ queued = <<>>
    /\ hist.failures < MaxCommitFailures
    /\ sess' = db
    /\ Finish([hist EXCEPT !.failures = @ + 1, !.faults = @ + 1, !.failRoot = rootIdx,
                 !.failRows = {}],
              "error", "commit")
    /\ UNCHANGED <<fs, db, issues, inv, rootIdx, queued, finished, batch, total_files,
                   clock, lastResult>>

---------------------------------------------------------------------------
(* The environment: between two scans a file is replaced by one of another kind *)

ChangeKinds == {"novideo"}

ChangeFile(f, k) ==
    /\ pc = "idle"
    /\ clock >= 1
    /\ clock < MaxScans
    /\ hist.changes < MaxChanges
    /\ k # fs[f]
    /\ fs' = [fs EXCEPT ![f] = k]
    /\ hist' = [hist EXCEPT !.changes = @ + 1]
    /\ UNCHANGED <<db, sess, issues, pc, inv, rootIdx, queued, finished, batch,
                   total_files, outcome, clock, lastResult>>

---------------------------------------------------------------------------
(* The scans *)

NoInv == [entry |-> "none", paths |-> <<>>, media_type |-> "auto", threads |-> 1,
          batch_size |-> 1]

\* f1 is any kind of file, f2 and f3 are media files with or without sound
InitWorlds == {w \in [Files -> Kinds] : w["f2"] \in {"video", "av"} /\ w["f3"] \in {"video", "av"}}

Init ==
    /\ fs \in InitWorlds
    /\ db = {}
    /\ sess = {}
    /\ issues = <<>>
    /\ pc = "idle"
    /\ inv = NoInv
    /\ rootIdx = 1
    /\ queued = <<>>
    /\ finished = {}
    /\ batch = <<>>
    /\ total_files = 0
    /\ outcome = NoOutcome
    /\ clock = 0
    /\ hist = NewHist([last |-> NoPrev, failures |-> 0, changes |-> 0, analyses |-> <<>>], {})
    /\ lastResult = [op |-> "none", value |-> <<>>]

Next ==
    \/ \E i \in Invocations : CliInvoke(i)
    \/ CliStartRoot
    \/ \E f \in Files : WorkerFinish(f)
    \/ \E f \in Files : CliConsume(f)
    \/ \E f \in Files : CliConsumeCommitFails(f)
    \/ CliFinal
    \/ CliFinalCommitFails
    \/ CliInterrupt
    \/ \E i \in Invocations : WebInvoke(i)
    \/ WebStartRoot
    \/ WebFile
    \/ WebCommit
    \/ WebCommitFails
    \/ \E f \in Files, k \in ChangeKinds : ChangeFile(f, k)

Spec == Init /\ [][Next]_vars

---------------------------------------------------------------------------
(* Properties of the scans *)

ScanOver == pc = "idle" /\ outcome.status # "none"

\* every root of the running / last invocation
InvRoots == Range(EffectivePaths(inv))

\* the candidates of the invocation whose extraction succeeds
GoodCandidates == {f \in Files : fs[f] # "raise" /\ \E r \in InvRoots : f \in Range(RootFiles(r))}

NoDuplicatePaths == \A r1, r2 \in db : r1.file_path = r2.file_path => r1 = r2

\* the last invocation repeated the one before it over unchanged files, and
\* neither met a failing commit or an interrupt
Rescanned ==
    /\ ScanOver
    /\ hist.prev.status # "none"
    /\ hist.prev.fs = fs
    /\ hist.prev.faults = 0
    /\ hist.faults = 0

\* C1: the store never holds two records with the same file_path, and a scan
\* of the same unchanged files leaves the records as the scan before left them
C1_UniqueAndIdempotent ==
    /\ NoDuplicatePaths
    /\ Rescanned => db = hist.dbStart

C4_ExtractionFailureIsolated ==
    (ScanOver /\ hist.raised # {} /\ hist.faults = 0)
    => /\ outcome.cause # "extraction"
       /\ GoodCandidates \subseteq hist.written

C6_MissingRootFailsFirst ==
    (inv.paths # <<>> /\ \E r \in Range(inv.paths) : ~RootExists(r))
    => /\ hist.extracted = {}
       /\ db = hist.dbStart
       /\ ScanOver => outcome.status = "error"

MediaColumns == {"resolution_width", "resolution_height", "codec", "bitrate", "duration"}

\* what the extraction of the file at path p yields now, for column c
Extracted(p, c) ==
    LET info == GetMediaInfo(p, fs[p])
    IN  IF c \in DOMAIN info THEN info[c] ELSE NullOf(c)

\* C10: a record upserted by the invocation holds, in every media column, what
\* the new extraction produced (NULL where it produced nothing)
C10_UpsertOverwritesAll ==
    \A r \in db : (fs = hist.fsStart /\ r.file_path \in hist.written) =>
        \A c \in MediaColumns : r[c] = Extracted(r.file_path, c)

---------------------------------------------------------------------------
(* analyzer.py: the checks *)

RECURSIVE SortById(_)
\* session.query(MediaFile).all(): the rows in rowid order
SortById(S) ==
    IF S = {} THEN <<>>
    ELSE LET r == CHOOSE x \in S : \A y \in S : x.id <= y.id
         IN  <<r>> \o SortById(S \ {r})

\* (f.resolution_height or 0), (f.bitrate or 0)
OrZero(v) == IF v = NullInt THEN 0 ELSE v

\* the sort key of analyzer.py 47-51
SortKey(f) == <<0 - OrZero(f.resolution_height), 0 - OrZero(f.bitrate), f.file_size>>

\* tuple comparison of two sort keys
KeyLess(a, b) ==
    \/ a[1] < b[1]
    \/ a[1] = b[1] /\ a[2] < b[2]
    \/ a[1] = b[1] /\ a[2] = b[2] /\ a[3] < b[3]

RECURSIVE SortReverse(_)
\* duplicates.sort(key=..., reverse=True): descending by key, rows with equal
\* keys in the order they had
SortReverse(l) ==
    IF l = <<>> THEN <<>>
    ELSE LET i == CHOOSE k \in DOMAIN l :
                      /\ \A j \in DOMAIN l : ~KeyLess(SortKey(l[k]), SortKey(l[j]))
                      /\ \A j \in 1..(k - 1) : KeyLess(SortKey(l[j]), SortKey(l[k]))
         IN  <<l[i]>> \o SortReverse(SubSeq(l, 1, i - 1) \o SubSeq(l, i + 1, Len(l)))

\* the keys of hash_groups in insertion order (analyzer.py 41-43)
RECURSIVE HashOrder(_, _)
HashOrder(files, seen) ==
    IF files = <<>> THEN <<>>
    ELSE LET h == Head(files).file_hash
         IN  IF h = NullStr \/ h \in seen
             THEN HashOrder(Tail(files), seen)
             ELSE <<h>> \o HashOrder(Tail(files), seen \cup {h})

NewIssue(n, target, type, severity, better) ==
    [id |-> n, media_file_id |-> target, issue_type |-> type, severity |-> severity,
     duplicate_of_id |-> better, resolved |-> FALSE]

\* analyzer.py 53-64 for one group: the issues of duplicates[1:]
GroupIssues(group, firstId) ==
    LET duplicates == SortReverse(group)
        best_file == duplicates[1]
    IN  [k \in 1..(Len(duplicates) - 1) |->
            NewIssue(firstId + k - 1, duplicates[k + 1].id, "duplicate", "high", best_file.id)]

RECURSIVE ExactPass(_, _, _)
\* analyzer.py 45-64: every group of more than one row, in dict order
ExactPass(files, hashes, firstId) ==
    IF hashes = <<>> THEN <<>>
    ELSE LET group == SelectSeq(files, LAMBDA f : f.file_hash = Head(hashes))
             made == IF Len(group) > 1 THEN GroupIssues(group, firstId) ELSE <<>>
         IN  made \o ExactPass(files, Tail(hashes), firstId + Len(made))

\* config 'analyzer.duplicate_detection.similarity_threshold', in percent
SimilarityThreshold == 85

\* SequenceMatcher(None, a, b).ratio() in percent (rounded down), for the file
\* names of the model: 100 for equal names, 93 for two Show names that differ
\* in one digit, 86 for two that differ in two, 25 with Other.avi
SimilarityRatio(a, b) ==
    IF a = b THEN 100
    ELSE IF a \notin ShowNames \/ b \notin ShowNames THEN 25
    ELSE IF ExtractSeason(a) = ExtractSeason(b) \/ ExtractEpisode(a) = ExtractEpisode(b) THEN 93
    ELSE 86

\* analyzer.py 90-101 for one pair, or nothing below the threshold
PairIssue(file1, file2, n) ==
    IF SimilarityRatio(file1.file_name, file2.file_name) >= SimilarityThreshold
    THEN LET better_file == IF OrZero(file1.resolution_height) >= OrZero(file2.resolution_height)
                            THEN file1 ELSE file2
             worse_file == IF better_file = file1 THEN file2 ELSE file1
         IN  <<NewIssue(n, worse_file.id, "duplicate", "medium", better_file.id)>>
    ELSE <<>>

RECURSIVE NearPass(_, _, _, _)
\* analyzer.py 79-101: file1 = files[i], file2 over files[i+1:] from index j
NearPass(files, i, j, firstId) ==
    IF i > Len(files) THEN <<>>
    ELSE IF j > Len(files) THEN NearPass(files, i + 1, i + 2, firstId)
    ELSE LET made == PairIssue(files[i], files[j], firstId)
         IN  made \o NearPass(files, i, j + 1, firstId + Len(made))

\* find_duplicates: the issues it adds
FindDuplicatesIssues(rows, firstId, use_filename_similarity) ==
    LET files == SortById(rows)
        exact == ExactPass(files, HashOrder(files, {}), firstId)
    IN  IF use_filename_similarity
        THEN exact \o NearPass(files, 1, 2, firstId + Len(exact))
        ELSE exact

\* a filter that also takes a height equal to the minimum (<= for <)
IsLowResolutionInclusive(f, min_resolution) ==
    f.resolution_height # NullInt /\ f.resolution_height <= min_resolution

\* the filter of analyzer.py 110-112: a NULL height is not below anything
IsLowResolution(f, min_resolution) ==
    f.resolution_height # NullInt /\ f.resolution_height < min_resolution

\* a check that leaves out the records that have a low_res issue already
FindLowResolutionIssuesOnce(rows, firstId, min_resolution) ==
    LET known == {issues[k].media_file_id : k \in {n \in DOMAIN issues : issues[n].issue_type = "low_res"}}
        files == SelectSeq(SortById(rows),
                           LAMBDA f : IsLowResolution(f, min_resolution) /\ f.id \notin known)
    IN  [k \in 1..Len(files) |-> NewIssue(firstId + k - 1, files[k].id, "low_res", "high", NullInt)]

\* find_low_resolution: the issues it adds
FindLowResolutionIssues(rows, firstId, min_resolution) ==
    LET files == SelectSeq(SortById(rows), LAMBDA f : IsLowResolution(f, min_resolution))
    IN  [k \in 1..Len(files) |-> NewIssue(firstId + k - 1, files[k].id, "low_res", "high", NullInt)]

\* any(old in file.codec.lower() for old in ['xvid', 'divx', 'mpeg2'])
IsOldCodec(codec) == codec \in {"XVID", "DIVX", "V_MPEG2"}

\* config.get('quality.min_bitrate_1080p', 2000) * 1000
MinBitrate1080p == 2000000

\* analyzer.py 135-155 for one file: up to two issues
QualityIssuesOf(f, firstId) ==
    LET old == IF f.codec # NullStr /\ IsOldCodec(f.codec)
               THEN <<NewIssue(firstId, f.id, "quality", "medium", NullInt)>> ELSE <<>>
        low == IF f.resolution_height = 1080 /\ OrZero(f.bitrate) # 0 /\ f.bitrate < MinBitrate1080p
               THEN <<NewIssue(firstId + Len(old), f.id, "quality", "medium", NullInt)>> ELSE <<>>
    IN  old \o low

RECURSIVE FindQualityIssuesOn(_, _)
\* find_quality_issues: the issues it adds
FindQualityIssuesOn(files, firstId) ==
    IF files = <<>> THEN <<>>
    ELSE LET made == QualityIssuesOf(Head(files), firstId)
         IN  made \o FindQualityIssuesOn(Tail(files), firstId + Len(made))

RECURSIVE SortedList(_)
\* sorted(missing_eps)
SortedList(S) == IF S = {} THEN <<>> ELSE <<MinOf(S)>> \o SortedList(S \ {MinOf(S)})

\* a query without the media_type filter of analyzer.py 165
TvFilesAnyType(rows) ==
    SelectSeq(SortById(rows), LAMBDA f : f.season # NullInt /\ f.episode # NullInt)

\* the rows find_missing_episodes reads (analyzer.py 164-168)
TvFiles(rows) ==
    SelectSeq(SortById(rows),
              LAMBDA f : f.media_type = "tv" /\ f.season # NullInt /\ f.episode # NullInt)

RECURSIVE KeyOrder(_, _)
\* the (series, season) pairs in the order the nested dicts are walked
\* (analyzer.py 174-175): series by first row, seasons by first row within
KeyOrder(files, seen) ==
    IF files = <<>> THEN <<>>
    ELSE LET t == Head(files).title
             ofT == SelectSeq(files, LAMBDA f : f.title = t)
             rest == SelectSeq(files, LAMBDA f : f.title # t)
         IN  IF <<t, Head(files).season>> \in seen
             THEN KeyOrder(Tail(files), seen)
             ELSE LET sn == Head(files).season
                      others == SelectSeq(ofT, LAMBDA f : f.season # sn) \o rest
                  IN  <<(<<t, sn>>)>> \o KeyOrder(others, seen \cup {<<t, sn>>})

\* series_episodes[series][season] (analyzer.py 170-172)
SeriesEpisodes(files, series, season) ==
    {files[k].episode : k \in {n \in DOMAIN files : files[n].title = series /\ files[n].season = season}}

\* analyzer.py 176-188 for one (series, season)
GapEntry(files, series, season) ==
    LET episodes == SeriesEpisodes(files, series, season)
        min_ep == MinOf(episodes)
        max_ep == MaxOf(episodes)
        missing_eps == (min_ep..max_ep) \ episodes
    IN  IF missing_eps # {}
        THEN <<[series |-> series, season |-> season, missing_episodes |-> SortedList(missing_eps)]>>
        ELSE <<>>

RECURSIVE GapsOf(_, _)
GapsOf(files, keys) ==
    IF keys = <<>> THEN <<>>
    ELSE GapEntry(files, Head(keys)[1], Head(keys)[2]) \o GapsOf(files, Tail(keys))

\* find_missing_episodes: the list it returns
FindMissingEpisodesList(rows) ==
    LET files == TvFiles(rows)
    IN  GapsOf(files, KeyOrder(files, {}))

---------------------------------------------------------------------------
(* The analysis commands (cli.py analyze) over a store that scans have left *)

MaxAnalyses == 2

\* config 'quality.min_resolution'
MinResolutions == {720, 1080}

\* the media attributes a stored file can have: none (no video track), or a
\* height, a bitrate (absent when the track states none) and a codec
Profiles ==
    {[h |-> NullInt, b |-> NullInt, codec |-> NullStr],
     [h |-> 720, b |-> NullInt, codec |-> "XVID"],
     [h |-> 720, b |-> 3000, codec |-> "V_MPEG4"],
     [h |-> 1080, b |-> 3000, codec |-> "V_MPEG4"],
     [h |-> 1080, b |-> 5000, codec |-> "V_MPEG4"]}

\* a row as a scan stores it
StoredRow(id, name, hash, p, size, media_type) ==
    [id |-> id, file_path |-> "/lib/" \o ToString(id) \o "/" \o name, file_name |-> name,
     file_size |-> size, file_hash |-> hash, media_type |-> media_type,
     title |-> ExtractTitle(name), year |-> ExtractYear(name),
     season |-> ExtractSeason(name), episode |-> ExtractEpisode(name),
     resolution_width |-> IF p.h = NullInt THEN NullInt ELSE (p.h * 16) \div 9,
     resolution_height |-> p.h, codec |-> p.codec, bitrate |-> p.b,
     duration |-> IF p.h = NullInt THEN NullInt ELSE 60,
     created_at |-> 1, scanned_at |-> 1]

\* three files, some of them copies (equal fingerprints), of varying quality
CopyStores ==
    {{StoredRow(1, "Show.S01E01.mkv", "H", p1, s1, "movie"),
      StoredRow(2, "Show.S01E02.mkv", h2, p2, s2, "movie"),
      StoredRow(3, n3, h3, p3, 200, "movie")} :
        p1 \in Profiles, s1 \in {100, 200},
        h2 \in {"H", "G"}, p2 \in Profiles, s2 \in {100, 200},
        n3 \in {"Show.S01E01.mkv", "Other.avi"}, h3 \in {"H", "G"}, p3 \in Profiles}

MaxEpisode == 6

MaxSeasonFiles == 4

EpisodeName(e) ==
    CASE e = 1 -> "Show.S01E01.mkv" [] e = 2 -> "Show.S01E02.mkv"
      [] e = 3 -> "Show.S01E03.mkv" [] e = 4 -> "Show.S01E04.mkv"
      [] e = 5 -> "Show.S01E05.mkv" [] e = 6 -> "Show.S01E06.mkv"
      [] OTHER -> "Show.S01E07.mkv"

PlainProfile == [h |-> 1080, b |-> 5000, codec |-> "V_MPEG4"]

\* one more file beside the episodes of season 1: of another season, of a
\* movie library, or one whose name holds no season and episode
ExtraFiles ==
    {<<"Show.S02E03.mkv", "tv">>, <<"Show.S02E05.mkv", "tv">>,
     <<"Show.S01E03.mkv", "movie">>, <<"Other.avi", "tv">>}

\* the rows of the episodes E of season 1, numbered in episode order
EpisodeRows(E) ==
    LET l == SortedList(E)
    IN  {StoredRow(k, EpisodeName(l[k]), "h" \o ToString(l[k]), PlainProfile, 200, "tv") :
            k \in DOMAIN l}

\* a tv library: some episodes of season 1, and possibly one more file
SeriesStores ==
    LET sets == {E \in SUBSET (1..MaxEpisode) : Cardinality(E) <= MaxSeasonFiles}
    IN  {EpisodeRows(E) : E \in sets}
        \cup
        {EpisodeRows(E) \cup {StoredRow(Cardinality(E) + 1, x[1], "hx", PlainProfile, 200, x[2])} :
            E \in sets, x \in ExtraFiles}

AnalysisStores == CopyStores \cup SeriesStores

NextIssueId == Len(issues) + 1

\* analyzer.py 34-70, with both commits
FindDuplicates(use_filename_similarity) ==
    /\ pc = "idle"
    /\ clock < MaxAnalyses
    /\ LET made == FindDuplicatesIssues(db, NextIssueId, use_filename_similarity)
       IN  /\ issues' = issues \o made
           /\ lastResult' = [op |-> "find_duplicates", value |-> made]
    /\ clock' = clock + 1
    /\ UNCHANGED <<fs, db, sess, pc, inv, rootIdx, queued, finished, batch, total_files,
                   outcome, hist>>

\* analyzer.py 106-125
FindLowResolution(min_resolution) ==
    /\ pc = "idle"
    /\ clock < MaxAnalyses
    /\ LET made == FindLowResolutionIssues(db, NextIssueId, min_resolution)
       IN  /\ issues' = issues \o made
           /\ lastResult' = [op |-> "find_low_resolution", arg |-> min_resolution,
                             value |-> made]
    /\ clock' = clock + 1
    /\ UNCHANGED <<fs, db, sess, pc, inv, rootIdx, queued, finished, batch, total_files,
                   outcome, hist>>

\* analyzer.py 127-158
FindQualityIssues ==
    /\ pc = "idle"
    /\ clock < MaxAnalyses
    /\ LET made == FindQualityIssuesOn(SortById(db), NextIssueId)
       IN  /\ issues' = issues \o made
           /\ lastResult' = [op |-> "find_quality_issues", value |-> made]
    /\ clock' = clock + 1
    /\ UNCHANGED <<fs, db, sess, pc, inv, rootIdx, queued, finished, batch, total_files,
                   outcome, hist>>

\* analyzer.py 160-190: reads only
FindMissingEpisodes ==
    /\ pc = "idle"
    /\ clock < MaxAnalyses
    /\ lastResult' = [op |-> "find_missing_episodes", value |-> FindMissingEpisodesList(db)]
    /\ clock' = clock + 1
    /\ UNCHANGED <<fs, db, sess, issues, pc, inv, rootIdx, queued, finished, batch,
                   total_files, outcome, hist>>

\* the configuration analyze_all reads: 'quality.min_resolution' (default),
\* 'analyzer.duplicate_detection.use_filename_similarity' and
\* 'analyzer.series_detection.check_missing_episodes'
AnalyzeConfigs ==
    [min_resolution : {1080}, use_filename_similarity : BOOLEAN,
     check_missing_episodes : BOOLEAN]

\* analyzer.py 18-23
NoResults ==
    [duplicates |-> <<>>, low_resolution |-> <<>>, missing_episodes |-> <<>>,
     quality_issues |-> <<>>]

\* analyze_all is over (it returned, or a check raised and the session was
\* closed): what it ran and what it had stored
EndAnalysis(status, cause, res, stored) ==
    /\ pc' = "idle"
    /\ outcome' = [status |-> status, cause |-> cause]
    /\ hist' = [hist EXCEPT !.analyses =
                   Append(@, [status |-> status, cfg |-> res.cfg, start |-> res.start,
                              made |-> SubSeq(stored, res.start + 1, Len(stored))])]

\* cli.py 149-157 / app.py 129-135, analyzer.py 18-23; the configuration file
\* stays as it is from one run to the next
AnalyzeAll(cfg) ==
    /\ pc = "idle"
    /\ clock < MaxAnalyses
    /\ IF hist.analyses = <<>> THEN TRUE ELSE cfg = hist.analyses[1].cfg
    /\ clock' = clock + 1
    /\ pc' = "find_duplicates"
    /\ outcome' = NoOutcome
    /\ lastResult' = [op |-> "analyze_all", cfg |-> cfg, results |-> NoResults,
                      ran |-> <<>>, start |-> Len(issues)]
    /\ UNCHANGED <<fs, db, sess, issues, inv, rootIdx, queued, finished, batch,
                   total_files, hist>>

\* analyzer.py 25: results['duplicates'] = self.find_duplicates()
AllDuplicates ==
    /\ pc = "find_duplicates"
    /\ LET made == FindDuplicatesIssues(db, NextIssueId, lastResult.cfg.use_filename_similarity)
       IN  /\ issues' = issues \o made
           /\ lastResult' = [lastResult EXCEPT !.results.duplicates = made,
                                               !.ran = Append(@, "duplicates")]
    /\ pc' = "find_low_resolution"
    /\ UNCHANGED <<fs, db, sess, inv, rootIdx, queued, finished, batch, total_files,
                   outcome, clock, hist>>

\* analyzer.py 26: results['low_resolution'] = self.find_low_resolution()
AllLowResolution ==
    /\ pc = "find_low_resolution"
    /\ LET made == FindLowResolutionIssues(db, NextIssueId, lastResult.cfg.min_resolution)
       IN  /\ issues' = issues \o made
           /\ lastResult' = [lastResult EXCEPT !.results.low_resolution = made,
                                               !.ran = Append(@, "low_resolution")]
    /\ pc' = "find_quality_issues"
    /\ UNCHANGED <<fs, db, sess, inv, rootIdx, queued, finished, batch, total_files,
                   outcome, clock, hist>>

\* analyzer.py 27-29: results['quality_issues'] = self.find_quality_issues(),
\* and the return of line 32 when missing episodes are not checked
AllQualityIssues ==
    /\ pc = "find_quality_issues"
    /\ LET made == FindQualityIssuesOn(SortById(db), NextIssueId)
           res == [lastResult EXCEPT !.results.quality_issues = made,
                                     !.ran = Append(@, "quality_issues")]
       IN  /\ issues' = issues \o made
           /\ lastResult' = res
           /\ IF lastResult.cfg.check_missing_episodes
              THEN /\ pc' = "find_missing_episodes"
                   /\ UNCHANGED <<outcome, hist>>
              ELSE EndAnalysis("ok", "none", res, issues \o made)
    /\ UNCHANGED <<fs, db, sess, inv, rootIdx, queued, finished, batch, total_files, clock>>

\* analyzer.py 30-32: results['missing_episodes'] = self.find_missing_episodes()
AllMissingEpisodes ==
    /\ pc = "find_missing_episodes"
    /\ LET res == [lastResult EXCEPT !.results.missing_episodes = FindMissingEpisodesList(db),
                                     !.ran = Append(@, "missing_episodes")]
       IN  /\ lastResult' = res
           /\ EndAnalysis("ok", "none", res, issues)
    /\ UNCHANGED <<fs, db, sess, issues, inv, rootIdx, queued, finished, batch,
                   total_files, clock>>

AnalysisStages ==
    {"find_duplicates", "find_low_resolution", "find_quality_issues", "find_missing_episodes"}

\* a global rollback: the failing check takes the issues of the checks before
\* it along
CheckRaisesRollingBackAll ==
    /\ pc \in AnalysisStages
    /\ issues' = SubSeq(issues, 1, lastResult.start)
    /\ EndAnalysis("error", pc, lastResult, SubSeq(issues, 1, lastResult.start))
    /\ UNCHANGED <<fs, db, sess, inv, rootIdx, queued, finished, batch, total_files,
                   clock, lastResult>>

\* the check that is due raises (a query or its commit fails): what it added
\* to the session is rolled back when the session is closed (cli.py 151,
\* app.py 131); what the checks before it committed stays
CheckRaises ==
    /\ pc \in AnalysisStages
    /\ EndAnalysis("error", pc, lastResult, issues)
    /\ UNCHANGED <<fs, db, sess, issues, inv, rootIdx, queued, finished, batch,
                   total_files, clock, lastResult>>

InitAnalyze ==
    /\ fs = [f \in Files |-> "video"]
    /\ db \in AnalysisStores
    /\ sess = db
    /\ issues = <<>>
    /\ pc = "idle"
    /\ inv = NoInv
    /\ rootIdx = 1
    /\ queued = <<>>
    /\ finished = {}
    /\ batch = <<>>
    /\ total_files = 0
    /\ outcome = NoOutcome
    /\ clock = 0
    /\ hist = NewHist([last |-> NoPrev, failures |-> 0, changes |-> 0, analyses |-> <<>>], db)
    /\ lastResult = [op |-> "none", value |-> <<>>]

NextAnalyze ==
    \/ \E flag \in BOOLEAN : FindDuplicates(flag)
    \/ \E m \in MinResolutions : FindLowResolution(m)
    \/ FindQualityIssues
    \/ FindMissingEpisodes

SpecAnalyze == InitAnalyze /\ [][NextAnalyze]_vars

\* the stores analyze_all runs over: the copies (of one size, with or without
\* video, old or new codec) and the tv libraries
AnalyzeAllStores ==
    {S \in CopyStores : \A r \in S : r.file_size = 200 /\ r.bitrate # 3000}
    \cup SeriesStores

InitAnalyzeAll ==
    /\ fs = [f \in Files |-> "video"]
    /\ db \in AnalyzeAllStores
    /\ sess = db
    /\ issues = <<>>
    /\ pc = "idle"
    /\ inv = NoInv
    /\ rootIdx = 1
    /\ queued = <<>>
    /\ finished = {}
    /\ batch = <<>>
    /\ total_files = 0
    /\ outcome = NoOutcome
    /\ clock = 0
    /\ hist = NewHist([last |-> NoPrev, failures |-> 0, changes |-> 0, analyses |-> <<>>], db)
    /\ lastResult = [op |-> "none", value |-> <<>>]

NextAnalyzeAll ==
    \/ \E cfg \in AnalyzeConfigs : AnalyzeAll(cfg)
    \/ AllDuplicates
    \/ AllLowResolution
    \/ AllQualityIssues
    \/ AllMissingEpisodes
    \/ CheckRaises

SpecAnalyzeAll == InitAnalyzeAll /\ [][NextAnalyzeAll]_vars

---------------------------------------------------------------------------
(* Properties of the analysis *)

RowOf(id) == CHOOSE r \in db : r.id = id

HeightOf(r) == IF r.resolution_height = NullInt THEN 0 ELSE r.resolution_height

BitrateOf(r) == IF r.bitrate = NullInt THEN 0 ELSE r.bitrate

\* a ranks strictly before b: higher resolution, then higher bitrate, then
\* smaller file
RankedBefore(a, b) ==
    \/ HeightOf(a) > HeightOf(b)
    \/ HeightOf(a) = HeightOf(b) /\ BitrateOf(a) > BitrateOf(b)
    \/ HeightOf(a) = HeightOf(b) /\ BitrateOf(a) = BitrateOf(b) /\ a.file_size < b.file_size

IssuesOn(l, id) == {k \in DOMAIN l : l[k].media_file_id = id}

\* C2: after find_duplicates every group of several rows with one fingerprint
\* has a canonical row that no member ranks before, and every other member
\* has a duplicate issue of severity high that refers to it
C2_CanonicalIsBest ==
    lastResult.op = "find_duplicates" =>
        \A h \in {r.file_hash : r \in db} :
            LET group == {r \in db : r.file_hash = h}
                exact == SelectSeq(lastResult.value, LAMBDA i : i.severity = "high")
            IN  Cardinality(group) > 1 =>
                    \E c \in group :
                        /\ \A m \in group : ~RankedBefore(m, c)
                        /\ IssuesOn(exact, c.id) = {}
                        /\ \A m \in group \ {c} :
                              \E k \in DOMAIN exact :
                                  /\ IssuesOn(exact, m.id) = {k}
                                  /\ exact[k].issue_type = "duplicate"
                                  /\ exact[k].duplicate_of_id = c.id

\* C7: every duplicate issue refers to a record other than its own, and not
\* to one that the pass's ranking puts behind it (never to a lower resolution)
C7_DuplicateOfSuperior ==
    \A k \in DOMAIN issues :
        issues[k].issue_type = "duplicate" =>
            /\ issues[k].duplicate_of_id # NullInt
            /\ issues[k].duplicate_of_id # issues[k].media_file_id
            /\ \E r \in db : r.id = issues[k].duplicate_of_id
            /\ HeightOf(RowOf(issues[k].duplicate_of_id)) >= HeightOf(RowOf(issues[k].media_file_id))
            /\ issues[k].severity = "high" =>
                  ~RankedBefore(RowOf(issues[k].media_file_id), RowOf(issues[k].duplicate_of_id))

\* the rows the spec lets find_missing_episodes consider
EpisodeRecords == {r \in db : r.media_type = "tv" /\ r.season # NullInt /\ r.episode # NullInt}

Observed(title, season) == {r.episode : r \in {x \in EpisodeRecords : x.title = title /\ x.season = season}}

\* the numbers strictly between the least and the greatest observed episode
\* that are not observed
GapOf(title, season) ==
    LET obs == Observed(title, season)
    IN  {e \in 1..MaxOf(obs) : e > MinOf(obs) /\ e < MaxOf(obs) /\ e \notin obs}

Ascending(l) == \A i, j \in DOMAIN l : i < j => l[i] < l[j]

\* C8: find_missing_episodes returns, for every (title, season) of tv records
\* with season and episode, one entry listing in ascending order exactly the
\* unobserved numbers strictly between the least and greatest episode, and no
\* entry for a group without such a number
C8_MissingEpisodes ==
    lastResult.op = "find_missing_episodes" =>
        LET out == lastResult.value
            groups == {<<r.title, r.season>> : r \in EpisodeRecords}
            entries(g) == {k \in DOMAIN out : out[k].series = g[1] /\ out[k].season = g[2]}
        IN  /\ \A k \in DOMAIN out : <<out[k].series, out[k].season>> \in groups
            /\ \A g \in groups :
                  IF GapOf(g[1], g[2]) = {}
                  THEN entries(g) = {}
                  ELSE \E k \in DOMAIN out :
                          /\ entries(g) = {k}
                          /\ Range(out[k].missing_episodes) = GapOf(g[1], g[2])
                          /\ Ascending(out[k].missing_episodes)

\* episodes {1,2,4,6} were observed and [3,5] is reported
C8_Witness ==
    /\ lastResult.op = "find_missing_episodes"
    /\ Observed("Show", 1) = {1, 2, 4, 6}
    /\ \E k \in DOMAIN lastResult.value : lastResult.value[k].missing_episodes = <<3, 5>>

\* C9: one call of find_low_resolution makes exactly one low_res issue of
\* severity high for every record whose height is below the minimum, none
\* for any other record, and stores them
C9_LowResolution ==
    lastResult.op = "find_low_resolution" =>
        LET out == lastResult.value
        IN  /\ \A r \in db :
                  IF r.resolution_height # NullInt /\ r.resolution_height < lastResult.arg
                  THEN \E k \in DOMAIN out :
                          /\ IssuesOn(out, r.id) = {k}
                          /\ out[k].issue_type = "low_res"
                          /\ out[k].severity = "high"
                  ELSE IssuesOn(out, r.id) = {}
            /\ \A k \in DOMAIN out : \E r \in db : r.id = out[k].media_file_id
            /\ Len(issues) >= Len(out)
            /\ SubSeq(issues, Len(issues) - Len(out) + 1, Len(issues)) = out

\* with minimum 1080, a 720 record got its issue and a 1080 record none
C9_Witness ==
    /\ lastResult.op = "find_low_resolution"
    /\ lastResult.arg = 1080
    /\ \E r1, r2 \in db :
          /\ r1.resolution_height = 720
          /\ r2.resolution_height = 1080
          /\ Cardinality(IssuesOn(lastResult.value, r1.id)) = 1
          /\ IssuesOn(lastResult.value, r2.id) = {}

\* the unordered pair of records a duplicate issue links
PairOf(i) == {i.media_file_id, i.duplicate_of_id}

\* C11: within one find_duplicates call no unordered pair of records gets more
\* than one duplicate issue; a pair the exact pass linked gets none from the
\* near pass
C11_NoPairTwice ==
    lastResult.op = "find_duplicates" =>
        \A k1, k2 \in DOMAIN lastResult.value :
            (/\ k1 # k2
             /\ lastResult.value[k1].issue_type = "duplicate"
             /\ lastResult.value[k2].issue_type = "duplicate")
            => PairOf(lastResult.value[k1]) # PairOf(lastResult.value[k2])

\* the order of analyzer.py 25-30
CheckOrder == <<"duplicates", "low_resolution", "quality_issues", "missing_episodes">>

IsPrefix(a, b) == Len(a) <= Len(b) /\ a = SubSeq(b, 1, Len(a))

\* the checks that are over when the check named by the position is due
RanBefore(stage) ==
    CASE stage = "find_duplicates" -> <<>>
      [] stage = "find_low_resolution" -> <<"duplicates">>
      [] stage = "find_quality_issues" -> <<"duplicates", "low_resolution">>
      [] OTHER -> <<"duplicates", "low_resolution", "quality_issues">>

\* C12: analyze_all runs duplicates, low resolution, quality, then (only if
\* enabled) missing episodes; when a check is due the issues of the checks
\* before it are stored, and they stay stored when a later check raises
C12_OrderedAndIncremental ==
    lastResult.op = "analyze_all" =>
        LET r == lastResult
            stored == r.results.duplicates \o r.results.low_resolution \o r.results.quality_issues
        IN  /\ IsPrefix(r.ran, CheckOrder)
            /\ "missing_episodes" \in Range(r.ran) => r.cfg.check_missing_episodes
            /\ pc \in AnalysisStages => r.ran = RanBefore(pc)
            /\ (pc = "idle" /\ outcome.status = "ok") =>
                  r.ran = (IF r.cfg.check_missing_episodes THEN CheckOrder ELSE RanBefore("find_missing_episodes"))
            /\ (pc = "idle" /\ outcome.status = "error") => r.ran = RanBefore(outcome.cause)
            /\ Len(issues) = r.start + Len(stored)
            /\ SubSeq(issues, r.start + 1, Len(issues)) = stored

\* the quality check raised after the duplicate and the low-resolution check
\* had stored issues, and those issues are in the store
C12_Witness ==
    /\ lastResult.op = "analyze_all"
    /\ pc = "idle"
    /\ outcome = [status |-> "error", cause |-> "find_quality_issues"]
    /\ lastResult.results.duplicates # <<>>
    /\ lastResult.results.low_resolution # <<>>
    /\ Len(issues) = Len(lastResult.results.duplicates) + Len(lastResult.results.low_resolution)

\* what the claim compares of an issue: target, kind and duplicate_of
IssueValues(i) == <<i.media_file_id, i.issue_type, i.duplicate_of_id>>

\* C13: a second analyze_all over the same records makes as many issues as the
\* first, with the same (target, kind, duplicate_of) values, so that two runs
\* on an empty issue table leave twice the issues of one; no run removes or
\* changes an issue that was stored
C13_RerunDoubles ==
    /\ \A a \in DOMAIN hist.analyses :
          LET A == hist.analyses[a]
          IN  /\ Len(issues) >= A.start + Len(A.made)
              /\ SubSeq(issues, A.start + 1, A.start + Len(A.made)) = A.made
    /\ \A a, b \in DOMAIN hist.analyses :
          LET A == hist.analyses[a]
              B == hist.analyses[b]
          IN  (a < b /\ A.status = "ok" /\ B.status = "ok" /\ A.cfg = B.cfg) =>
                  /\ Len(B.made) = Len(A.made)
                  /\ \A k \in DOMAIN A.made : IssueValues(B.made[k]) = IssueValues(A.made[k])
                  /\ (A.start = 0 /\ B.start = Len(A.made)) =>
                        B.start + Len(B.made) = 2 * Len(A.made)

\* two complete runs, the first of which stored issues of more than one kind
C13_Witness ==
    /\ Len(hist.analyses) = 2
    /\ hist.analyses[1].status = "ok"
    /\ hist.analyses[2].status = "ok"
    /\ \E k1, k2 \in DOMAIN hist.analyses[1].made :
          /\ hist.analyses[1].made[k1].issue_type = "duplicate"
          /\ hist.analyses[1].made[k2].issue_type = "low_res"
    /\ Len(issues) = 2 * Len(hist.analyses[1].made)

---------------------------------------------------------------------------
(* scanner.py 133-159 on the characters of a stem *)

MaxPieces == 4

Digits == {"0", "1", "2", "5", "8", "9"}

DigitValue(c) ==
    CASE c = "0" -> 0 [] c = "1" -> 1 [] c = "2" -> 2 [] c = "5" -> 5 [] c = "8" -> 8
      [] OTHER -> 9

\* the patterns of scanner.py 137, in the order of the loop
TitlePatterns == <<"year4", "sxxexx", "bracket", "paren">>

DigitsAt(s, i, n) == i + n - 1 <= Len(s) /\ \A k \in i..(i + n - 1) : s[k] \in Digits

\* the pattern matches in s at position i
MatchesAt(s, i, pattern) ==
    CASE pattern = "year4" -> DigitsAt(s, i, 4)
      [] pattern = "sxxexx" ->
            /\ i + 5 <= Len(s)
            /\ s[i] \in {"S", "s"}
            /\ DigitsAt(s, i + 1, 2)
            /\ s[i + 3] \in {"E", "e"}
            /\ DigitsAt(s, i + 4, 2)
      [] pattern = "bracket" -> s[i] = "[" /\ \E j \in (i + 1)..Len(s) : s[j] = "]"
      [] OTHER -> s[i] = "(" /\ \E j \in (i + 1)..Len(s) : s[j] = ")"

\* where the first match of the pattern starts in s (0: no match)
FirstMatch(s, pattern) ==
    LET at == {i \in DOMAIN s : MatchesAt(s, i, pattern)}
    IN  IF at = {} THEN 0 ELSE MinOf(at)

\* re.split(pattern, name)[0]
SplitHead(s, pattern) ==
    IF FirstMatch(s, pattern) = 0 THEN s ELSE SubSeq(s, 1, FirstMatch(s, pattern) - 1)

\* .replace('.', ' ').replace('_', ' ')
ReplaceDots(s) == [k \in DOMAIN s |-> IF s[k] \in {".", "_"} THEN " " ELSE s[k]]

\* .strip()
Strip(s) ==
    LET keep == {k \in DOMAIN s : s[k] # " "}
    IN  IF keep = {} THEN <<>> ELSE SubSeq(s, MinOf(keep), MaxOf(keep))

\* _extract_title on the stem: the patterns cut the name one after the other
ExtractTitleOf(stem) ==
    LET n1 == SplitHead(stem, TitlePatterns[1])
        n2 == SplitHead(n1, TitlePatterns[2])
        n3 == SplitHead(n2, TitlePatterns[3])
        n4 == SplitHead(n3, TitlePatterns[4])
    IN  Strip(ReplaceDots(n4))

\* _extract_year: re.search(r'(19|20)\d{2}')
ExtractYearOf(stem) ==
    LET at == {i \in DOMAIN stem :
                  /\ DigitsAt(stem, i, 4)
                  /\ <<stem[i], stem[i + 1]>> \in {<<"1", "9">>, <<"2", "0">>}}
        i == MinOf(at)
    IN  IF at = {} THEN NullInt
        ELSE 1000 * DigitValue(stem[i]) + 100 * DigitValue(stem[i + 1])
             + 10 * DigitValue(stem[i + 2]) + DigitValue(stem[i + 3])

RECURSIVE IntOfRun(_, _, _, _)
\* int() of the digits of s from position i on, at most n of them
IntOfRun(s, i, n, acc) ==
    IF n = 0 \/ i > Len(s) THEN acc
    ELSE IF s[i] \notin Digits THEN acc
    ELSE IntOfRun(s, i + 1, n - 1, 10 * acc + DigitValue(s[i]))

\* re.search of a letter of the set followed by one to n digits
NumberAfter(stem, letters, n) ==
    LET at == {i \in DOMAIN stem : stem[i] \in letters /\ DigitsAt(stem, i + 1, 1)}
    IN  IF at = {} THEN NullInt ELSE IntOfRun(stem, MinOf(at) + 1, n, 0)

\* _extract_season: r'[Ss](\d{1,2})'
ExtractSeasonOf(stem) == NumberAfter(stem, {"S", "s"}, 2)

\* _extract_episode: r'[Ee](\d{1,3})'
ExtractEpisodeOf(stem) == NumberAfter(stem, {"E", "e"}, 3)

\* what stems are made of
Pieces ==
    {<<"S", "h", "o", "w">>, <<"N", "a", "m", "e">>, <<".">>, <<"_">>, <<" ">>,
     <<"2", "0", "1", "9">>, <<"1", "0", "8", "0", "p">>, <<"S", "0", "2", "E", "0", "5">>,
     <<"1", "2">>, <<"[">>, <<"]">>, <<"(">>, <<")">>}

RECURSIVE StemsOf(_)
\* the stems of at most n pieces
StemsOf(n) ==
    IF n = 0 THEN {<<>>}
    ELSE LET shorter == StemsOf(n - 1)
         IN  shorter \cup {s \o q : s \in shorter, q \in Pieces}

\* Show.Name.S02E05.1080p
ShowNameStem ==
    <<"S", "h", "o", "w", ".", "N", "a", "m", "e", ".", "S", "0", "2", "E", "0", "5", ".",
      "1", "0", "8", "0", "p">>

\* Movie.Title.2019.1080p
MovieTitleStem ==
    <<"M", "o", "v", "i", "e", ".", "T", "i", "t", "l", "e", ".", "2", "0", "1", "9", ".",
      "1", "0", "8", "0", "p">>

ExampleStems == {ShowNameStem, MovieTitleStem}

\* the stems of the model: those of at most n pieces, and the examples
Stems(n) == (StemsOf(n) \ {<<>>}) \cup ExampleStems

\* scanner.py 55-58 for a file of the stem
ExtractIdentity ==
    /\ pc = "idle"
    /\ inv.entry = "extract"
    /\ lastResult.op = "none"
    /\ lastResult' = [op |-> "extract", title |-> ExtractTitleOf(inv.stem),
                      year |-> ExtractYearOf(inv.stem), season |-> ExtractSeasonOf(inv.stem),
                      episode |-> ExtractEpisodeOf(inv.stem)]
    /\ UNCHANGED <<fs, db, sess, issues, pc, inv, rootIdx, queued, finished, batch,
                   total_files, outcome, clock, hist>>

InitExtract ==
    /\ fs = [f \in Files |-> "video"]
    /\ db = {}
    /\ sess = {}
    /\ issues = <<>>
    /\ pc = "idle"
    /\ inv \in [entry : {"extract"}, stem : Stems(MaxPieces)]
    /\ rootIdx = 1
    /\ queued = <<>>
    /\ finished = {}
    /\ batch = <<>>
    /\ total_files = 0
    /\ outcome = NoOutcome
    /\ clock = 0
    /\ hist = NewHist([last |-> NoPrev, failures |-> 0, changes |-> 0, analyses |-> <<>>], {})
    /\ lastResult = [op |-> "none", value |-> <<>>]

NextExtract == ExtractIdentity

SpecExtract == InitExtract /\ [][NextExtract]_vars

\* the title the stem has by the rule of the smallest start position
TitleByFirstMatch(stem) ==
    LET starts == {FirstMatch(stem, TitlePatterns[k]) : k \in DOMAIN TitlePatterns} \ {0}
        cut == IF starts = {} THEN stem ELSE SubSeq(stem, 1, MinOf(starts) - 1)
    IN  Strip(ReplaceDots(cut))

\* C14: the title of every stem is the part before the earliest match of the
\* four patterns, dots and underscores made spaces and trimmed; the two
\* example stems give Show Name / 2 / 5 / no year and Movie Title / 2019 / no
\* season or episode
C14_TitleBeforeFirstMatch ==
    lastResult.op = "extract" =>
        /\ lastResult.title = TitleByFirstMatch(inv.stem)
        /\ inv.stem = ShowNameStem =>
              /\ lastResult.title = <<"S", "h", "o", "w", " ", "N", "a", "m", "e">>
              /\ lastResult.season = 2
              /\ lastResult.episode = 5
              /\ lastResult.year = NullInt
        /\ inv.stem = MovieTitleStem =>
              /\ lastResult.title = <<"M", "o", "v", "i", "e", " ", "T", "i", "t", "l", "e">>
              /\ lastResult.year = 2019
              /\ lastResult.season = NullInt
              /\ lastResult.episode = NullInt

---------------------------------------------------------------------------
(* scanner.py 69-85 on the bytes of a file *)

MaxFileLen == 6

\* chunk_size (8192 bytes), scaled to the files of the model
ChunkSize == 2

Bytes == {"a", "b"}

RECURSIVE ContentsOf(_)
\* the files of at most n bytes
ContentsOf(n) ==
    IF n = 0 THEN {<<>>}
    ELSE LET shorter == ContentsOf(n - 1)
         IN  shorter \cup {c \o <<b>> : c \in shorter, b \in Bytes}

\* f.read(n) at position 0
ReadHead(content, n) == SubSeq(content, 1, IF Len(content) < n THEN Len(content) ELSE n)

\* f.seek(-n, 2); f.read(n)
ReadTail(content, n) == SubSeq(content, Len(content) - n + 1, Len(content))

\* a hash over every byte of the file
CalculateHashWhole(content) == <<ToString(Len(content))>> \o content

\* _calculate_hash: the digest stands for the bytes the hasher was fed, in
\* order: str(file_size), the first chunk, and the last chunk of a file of
\* more than two chunks
CalculateHashOf(content) ==
    LET file_size == Len(content)
        fed == <<ToString(file_size)>> \o ReadHead(content, ChunkSize)
    IN  IF file_size > ChunkSize * 2
        THEN fed \o ReadTail(content, ChunkSize)
        ELSE fed

\* scanner.py 53 for two files, the first of them read twice
Fingerprint ==
    /\ pc = "idle"
    /\ inv.entry = "hash"
    /\ lastResult.op = "none"
    /\ lastResult' = [op |-> "hash", first |-> CalculateHashOf(inv.file1),
                      again |-> CalculateHashOf(inv.file1),
                      second |-> CalculateHashOf(inv.file2)]
    /\ UNCHANGED <<fs, db, sess, issues, pc, inv, rootIdx, queued, finished, batch,
                   total_files, outcome, clock, hist>>

InitHash ==
    /\ fs = [f \in Files |-> "video"]
    /\ db = {}
    /\ sess = {}
    /\ issues = <<>>
    /\ pc = "idle"
    /\ inv \in [entry : {"hash"}, file1 : ContentsOf(MaxFileLen), file2 : ContentsOf(MaxFileLen)]
    /\ rootIdx = 1
    /\ queued = <<>>
    /\ finished = {}
    /\ batch = <<>>
    /\ total_files = 0
    /\ outcome = NoOutcome
    /\ clock = 0
    /\ hist = NewHist([last |-> NoPrev, failures |-> 0, changes |-> 0, analyses |-> <<>>], {})
    /\ lastResult = [op |-> "none", value |-> <<>>]

NextHash == Fingerprint

SpecHash == InitHash /\ [][NextHash]_vars

\* the first 8 KiB of a file
FirstWindow(content) == [k \in {n \in DOMAIN content : n <= ChunkSize} |-> content[k]]

\* the last 8 KiB of a file of more than 16 KiB, by position from the end
LastWindow(content) ==
    IF Len(content) > 2 * ChunkSize
    THEN [k \in 1..ChunkSize |-> content[Len(content) - ChunkSize + k]]
    ELSE <<>>

\* C15: the same file gives the same fingerprint twice, and two files of
\* equal size that agree on the first window and (above two windows of size)
\* on the last window get equal fingerprints
C15_FingerprintOfWindows ==
    lastResult.op = "hash" =>
        /\ lastResult.again = lastResult.first
        /\ (/\ Len(inv.file1) = Len(inv.file2)
            /\ FirstWindow(inv.file1) = FirstWindow(inv.file2)
            /\ LastWindow(inv.file1) = LastWindow(inv.file2))
           => lastResult.first = lastResult.second

\* two files of more than two chunks that differ between the windows have
\* the same fingerprint
C15_Witness ==
    /\ lastResult.op = "hash"
    /\ Len(inv.file1) > 2 * ChunkSize
    /\ Len(inv.file1) = Len(inv.file2)
    /\ inv.file1 # inv.file2
    /\ FirstWindow(inv.file1) = FirstWindow(inv.file2)
    /\ LastWindow(inv.file1) = LastWindow(inv.file2)
    /\ lastResult.first = lastResult.second

---------------------------------------------------------------------------
(* Properties of the scan's write path *)

\* the roots of the invocation that hold the file, by position
CandidateRoots(f) ==
    {k \in DOMAIN EffectivePaths(inv) : f \in Range(RootFiles(EffectivePaths(inv)[k]))}

\* the attributes of a record, without the row id
ValuesOf(r) == [c \in Columns \ {"id"} |-> r[c]]

\* what the record of candidate f holds once the invocation has written its
\* extraction result: the result, over what the store held for the path
\* before (for a new path: NULL, and the timestamps of the insert)
ExpectedValues(f) ==
    LET last == EffectivePaths(inv)[MaxOf(CandidateRoots(f))]
        info == ExtractFileInfo(f, fs[f], DetectedType(inv, last))
        old == {r \in hist.dbStart : r.file_path = f}
    IN  [c \in Columns \ {"id"} |->
            IF c \in DOMAIN info THEN info[c]
            ELSE IF old # {} THEN (CHOOSE r \in old : TRUE)[c]
            ELSE IF c \in {"created_at", "scanned_at"} THEN clock
            ELSE NullOf(c)]

\* C16: a cli scan that finishes, no commit having failed, leaves exactly one
\* record for every candidate whose extraction succeeded, the last partial
\* batch included, and the records hold the same values whatever the worker
\* count, the batch size and the order in which the extractions completed
C16_OrderIndependent ==
    (/\ ScanOver
     /\ fs = hist.fsStart
     /\ inv.entry = "cli"
     /\ outcome.status = "ok"
     /\ hist.faults = 0) =>
        /\ \A f \in GoodCandidates : Cardinality({r \in db : r.file_path = f}) = 1
        /\ {ValuesOf(r) : r \in db}
              = {ExpectedValues(f) : f \in GoodCandidates}
                \cup {ValuesOf(r) : r \in {x \in hist.dbStart : x.file_path \notin GoodCandidates}}

\* a scan with two workers and batch size 2 wrote three records, the third in
\* the last partial batch, and f2 was written before f1
C16_Witness ==
    /\ ScanOver
    /\ inv.entry = "cli"
    /\ outcome.status = "ok"
    /\ hist.faults = 0
    /\ inv.threads = 2
    /\ inv.batch_size = 2
    /\ hist.dbStart = {}
    /\ Cardinality(db) = 3
    /\ \E r1, r2 \in db : r1.file_path = "f1" /\ r2.file_path = "f2" /\ r2.id < r1.id

\* C17: in the loop of a cli scan the running total is never more than the
\* number of results in the batches committed for the root, and the total a
\* finished scan reports is that number
C17_CountIsCommitted ==
    /\ pc = "cli_loop" => total_files <= hist.counted
    /\ (ScanOver /\ inv.entry = "cli" /\ outcome.status = "ok") => total_files = hist.counted

====
